---------------------------- MODULE Spec2Model ----------------------------
(***************************************************************************)
(* Model of the onnaflips ledger: the Item entity and its derived          *)
(* properties, the JSON item API (create / get / update / delete), the     *)
(* summary (/api/stats) and deep analytics (/api/analytics) handlers, the  *)
(* two export handlers, and the spreadsheet import run.                    *)
(*                                                                         *)
(* Representation.                                                         *)
(*   - A nullable Python value is a sequence: <<>> is None, <<v>> is v.    *)
(*   - Money is an integer number of cents (finite floats only); round(x)  *)
(*     of an amount is an integer number of dollars.                       *)
(*   - A date is its day number, day 0 being Monday 2024-01-01;            *)
(*     isoformat(d) is the string 'YYYY-MM-DD' of day d, a JSON string     *)
(*     distinct from every other string.  today is the server's date; it   *)
(*     does not change during a run.                                       *)
(*   - round(x, 4) results are integers in units of 1/10000, round(x, 2)   *)
(*     results in units of 1/100, round(x, 1) results in units of 1/10.    *)
(*   - The store is the sequence of rows in rowid order, which is the      *)
(*     order Item.query.all() yields on SQLite.                            *)
(***************************************************************************)
EXTENDS Integers, Sequences, FiniteSets, TLC

VARIABLES items, req, resp, today

vars == <<items, req, resp, today>>

(***************************************************************************)
(* Bounds of the model.                                                    *)
(***************************************************************************)
MaxItems == 2
MaxId == 3
MaxSheetRows == 1
MaxMixedRows == 4
MaxBulkRows == 11
MaxBookRows == 3

(***************************************************************************)
(* Python values.                                                          *)
(***************************************************************************)
None == <<>>
Some(v) == <<v>>
Val(o) == o[1]

\* n dollars, in cents
USD(n) == 100 * n

\* bool(x) of an optional number: None and 0 are falsy.
Truthy(o) == o # None /\ Val(o) # 0

Min(a, b) == IF a <= b THEN a ELSE b
Max(a, b) == IF a >= b THEN a ELSE b

\* round(n / d) for d > 0, to the nearest integer, ties to the even one.
RoundHalfEven(n, d) ==
    LET q == n \div d
        r == n % d
    IN  IF 2 * r < d THEN q
        ELSE IF 2 * r > d THEN q + 1
        ELSE IF q % 2 = 0 THEN q ELSE q + 1

\* s[:n]
Take(s, n) == SubSeq(s, 1, Min(n, Len(s)))

\* s[-n:]
LastN(s, n) == SubSeq(s, Max(1, Len(s) - n + 1), Len(s))

RECURSIVE SumSeq(_)
SumSeq(s) == IF s = <<>> THEN 0 ELSE s[1] + SumSeq(Tail(s))

(***************************************************************************)
(* JSON values of a request body.  Absent: the key is not in the object.   *)
(***************************************************************************)
Absent == [t |-> "absent"]
JNull == [t |-> "null"]
JStr(s) == [t |-> "str", s |-> s]
JNum(n) == [t |-> "num", n |-> n]
isoformat(d) == [t |-> "iso", d |-> d]

\* data.get(key): a missing key reads as None
Get(v) == IF v = Absent THEN JNull ELSE v

\* data.get(key, dflt)
GetDefault(v, dflt) == IF v = Absent THEN dflt ELSE v

\* `not val` of a JSON value
Falsy(v) == v = JNull \/ v = JStr("") \/ v = JNum(0)

_parse_date(val) ==
    IF Falsy(val) THEN None
    ELSE IF val.t = "iso" THEN Some(val.d)
    ELSE None

_parse_float(val) ==
    IF val = JNull \/ val = JStr("") THEN None
    ELSE IF val.t = "num" THEN Some(val.n)
    ELSE None

\* float(data.get('cost', 0) or 0): None when float() raises ValueError
ParseCost(v) ==
    LET x == GetDefault(v, JNum(0))
    IN  IF Falsy(x) THEN Some(0)
        ELSE IF x.t = "num" THEN Some(x.n)
        ELSE None

\* faulty variant: a missing 'status' key always reads as 'Listed'
ParseStatus_listed(v, dflt) ==
    IF v = Absent THEN Some("Listed")
    ELSE IF v = JNull THEN None
    ELSE Some(v.s)

\* data.get('status', dflt), dflt an optional string
ParseStatus(v, dflt) ==
    IF v = Absent THEN dflt
    ELSE IF v = JNull THEN None
    ELSE Some(v.s)

ParseNotes(v) == IF Get(v) = JNull THEN None ELSE Some(Get(v).s)

(***************************************************************************)
(* Item: the derived properties.                                           *)
(***************************************************************************)
Columns ==
    {"id", "date_bought", "date_sold", "description", "cost",
     "listing_price", "sold_for", "status", "notes"}

\* faulty variant: profit reported for sold items only
actual_profit_sold_only(i) ==
    IF i.status = Some("Sold") /\ i.sold_for # None /\ i.cost # None
    THEN Some(Val(i.sold_for) - Val(i.cost))
    ELSE None

actual_profit(i) ==
    IF i.sold_for # None /\ i.cost # None
    THEN Some(Val(i.sold_for) - Val(i.cost))
    ELSE None

\* faulty variant: the status test is dropped
predicted_profit_any_status(i) ==
    IF Truthy(i.listing_price) /\ i.cost # None
    THEN Some(Val(i.listing_price) - Val(i.cost))
    ELSE None

predicted_profit(i) ==
    IF i.status # Some("Sold") /\ Truthy(i.listing_price) /\ i.cost # None
    THEN Some(Val(i.listing_price) - Val(i.cost))
    ELSE None

\* faulty variant: markup over cost instead of margin over the sale price
actual_margin_markup(i) ==
    IF Truthy(i.sold_for) /\ Val(i.sold_for) > 0 /\ Truthy(i.cost) /\ Val(i.cost) > 0
    THEN Some(RoundHalfEven(10000 * (Val(i.sold_for) - Val(i.cost)), Val(i.cost)))
    ELSE None

actual_margin(i) ==
    IF Truthy(i.sold_for) /\ Val(i.sold_for) > 0 /\ i.cost # None
    THEN Some(RoundHalfEven(10000 * (Val(i.sold_for) - Val(i.cost)), Val(i.sold_for)))
    ELSE None

days_to_sell(i) ==
    IF i.date_bought # None /\ i.date_sold # None
    THEN Some(Val(i.date_sold) - Val(i.date_bought))
    ELSE None

\* faulty variant: a sale with no positive holding time reports 0 instead of None
profit_per_day_zero(i) ==
    LET days == days_to_sell(i)
        profit == actual_profit(i)
    IN  IF Truthy(days) /\ Val(days) > 0 /\ profit # None
        THEN Some(RoundHalfEven(Val(profit), Val(days)))
        ELSE IF days # None /\ profit # None THEN Some(0) ELSE None

profit_per_day(i) ==
    LET days == days_to_sell(i)
        profit == actual_profit(i)
    IN  IF Truthy(days) /\ Val(days) > 0 /\ profit # None
        THEN Some(RoundHalfEven(Val(profit), Val(days)))
        ELSE None

IsoOrNone(d) == IF d # None THEN Some(isoformat(Val(d))) ELSE None

to_dict(i) ==
    [id |-> i.id,
     date_bought |-> IsoOrNone(i.date_bought),
     date_sold |-> IsoOrNone(i.date_sold),
     description |-> i.description,
     cost |-> i.cost,
     listing_price |-> i.listing_price,
     sold_for |-> i.sold_for,
     status |-> i.status,
     notes |-> i.notes,
     actual_profit |-> actual_profit(i),
     predicted_profit |-> predicted_profit(i),
     actual_margin |-> actual_margin(i),
     days_to_sell |-> days_to_sell(i),
     profit_per_day |-> profit_per_day(i)]

(***************************************************************************)
(* The store.                                                              *)
(***************************************************************************)
Ids == {items[k].id : k \in 1..Len(items)}

HasId(id) == \E k \in 1..Len(items) : items[k].id = id

IndexOf(id) == CHOOSE k \in 1..Len(items) : items[k].id = id

\* the rowid SQLite gives the next inserted row: one more than the largest
NextId == IF items = <<>> THEN 1
          ELSE (CHOOSE m \in Ids : \A x \in Ids : x <= m) + 1

Response(op, status, body) == [op |-> op, status |-> status, body |-> body]

NoResponse == Response("none", 0, None)

\* the request being served: the handler and the id in its path, if any
Request(op, item_id) == [op |-> op, item_id |-> item_id]

NoRequest == Request("none", None)

\* a request that carries a JSON body (request.json)
JsonRequest(op, item_id, data) == [op |-> op, item_id |-> item_id, json |-> data]

get_item(item_id) ==
    /\ req' = Request("get_item", Some(item_id))
    /\ UNCHANGED today
    /\ resp' = IF HasId(item_id)
               THEN Response("get_item", 200, to_dict(items[IndexOf(item_id)]))
               ELSE Response("get_item", 404, None)
    /\ UNCHANGED items

(***************************************************************************)
(* sorted(..., key=...): Python's sort is stable, also with reverse=True.  *)
(* A sort key is a fraction n/d with d > 0, so profit/cost keys compare    *)
(* exactly; entries are [key, item] pairs.                                 *)
(***************************************************************************)
Key(n) == [n |-> n, d |-> 1]
Ratio(n, d) == [n |-> n, d |-> d]
KeyLess(a, b) == a.n * b.d < b.n * a.d

RECURSIVE InsertAsc(_, _)
InsertAsc(sorted, x) ==
    IF sorted = <<>> THEN <<x>>
    ELSE IF KeyLess(x.key, sorted[1].key) THEN <<x>> \o sorted
    ELSE <<sorted[1]>> \o InsertAsc(Tail(sorted), x)

\* faulty variant: an item is placed before the items of equal key
RECURSIVE InsertDesc_before_ties(_, _)
InsertDesc_before_ties(sorted, x) ==
    IF sorted = <<>> THEN <<x>>
    ELSE IF ~KeyLess(x.key, sorted[1].key) THEN <<x>> \o sorted
    ELSE <<sorted[1]>> \o InsertDesc_before_ties(Tail(sorted), x)

RECURSIVE InsertDesc(_, _)
InsertDesc(sorted, x) ==
    IF sorted = <<>> THEN <<x>>
    ELSE IF KeyLess(sorted[1].key, x.key) THEN <<x>> \o sorted
    ELSE <<sorted[1]>> \o InsertDesc(Tail(sorted), x)

RECURSIVE SortAsc(_)
SortAsc(s) ==
    IF s = <<>> THEN <<>>
    ELSE InsertAsc(SortAsc(SubSeq(s, 1, Len(s) - 1)), s[Len(s)])

\* faulty variant: ascending where the code sorts with reverse=True
SortDesc_ascending(s) == SortAsc(s)

RECURSIVE SortDesc(_)
SortDesc(s) ==
    IF s = <<>> THEN <<>>
    ELSE InsertDesc(SortDesc(SubSeq(s, 1, Len(s) - 1)), s[Len(s)])

\* the items of a sorted list of [key, item] pairs
ItemsOf(s) == [k \in 1..Len(s) |-> s[k].item]

\* x or 0
OrZero(o) == IF Truthy(o) THEN Val(o) ELSE 0

\* the position of the first largest value of a non-empty sequence: max()
FirstMaxIdx(s) ==
    CHOOSE k \in 1..Len(s) :
        /\ \A j \in 1..Len(s) : s[j] <= s[k]
        /\ \A j \in 1..(k - 1) : s[j] < s[k]

SeqMax(s) == s[FirstMaxIdx(s)]

SeqMin(s) == CHOOSE x \in {s[k] : k \in 1..Len(s)} : \A j \in 1..Len(s) : x <= s[j]

(***************************************************************************)
(* /api/stats                                                              *)
(***************************************************************************)
IsSold(i) == i.status = Some("Sold")
IsListed(i) == i.status = Some("Listed")

\* date.strftime('%Y-%m') as the number YYYYMM; day 0 is 2024-01-01
MonthKey(d) == IF d < 31 THEN 202401 ELSE IF d < 60 THEN 202402 ELSE 202403

RECURSIVE SortedSeqOfSet(_)
SortedSeqOfSet(S) ==
    IF S = {} THEN <<>>
    ELSE LET m == CHOOSE x \in S : \A y \in S : x <= y
         IN  <<m>> \o SortedSeqOfSet(S \ {m})

\* faulty variant: only the sold items with both dates enter the two lists
DaysInBusiness_both_dates(sold) ==
    LET dated == SelectSeq(sold, LAMBDA i : i.date_bought # None /\ i.date_sold # None)
        all_bought == [k \in 1..Len(dated) |-> Val(dated[k].date_bought)]
        all_sold_dates == [k \in 1..Len(dated) |-> Val(dated[k].date_sold)]
    IN  IF dated # <<>>
        THEN SeqMax(all_sold_dates) - SeqMin(all_bought)
        ELSE 1

\* (max(all_sold_dates) - min(all_bought)).days if both lists are non-empty else 1
DaysInBusiness(sold) ==
    LET bought == SelectSeq(sold, LAMBDA i : i.date_bought # None)
        dated == SelectSeq(sold, LAMBDA i : i.date_sold # None)
        all_bought == [k \in 1..Len(bought) |-> Val(bought[k].date_bought)]
        all_sold_dates == [k \in 1..Len(dated) |-> Val(dated[k].date_sold)]
    IN  IF all_bought # <<>> /\ all_sold_dates # <<>>
        THEN SeqMax(all_sold_dates) - SeqMin(all_bought)
        ELSE 1

\* round((n / d) / max(days_biz / period, 1)) for d > 0
PerPeriod(n, d, days_biz, period) ==
    IF days_biz <= period THEN RoundHalfEven(n, d)
    ELSE RoundHalfEven(n * period, d * days_biz)

\* faulty variant: a month's entry is overwritten by each sale, not added to
MonthlyProfit_last_sale(sold_items) ==
    LET counted == SelectSeq(sold_items,
                       LAMBDA i : i.date_sold # None /\ actual_profit(i) # None)
        keys == {MonthKey(Val(counted[k].date_sold)) : k \in 1..Len(counted)}
        monthly_sorted == SortedSeqOfSet(keys)
        InMonth(m) == SelectSeq(counted, LAMBDA i : MonthKey(Val(i.date_sold)) = m)
    IN  [k \in 1..Len(monthly_sorted) |->
            [month |-> monthly_sorted[k],
             profit |-> Val(actual_profit(
                 InMonth(monthly_sorted[k])[Len(InMonth(monthly_sorted[k]))]))]]

MonthlyProfit(sold_items) ==
    LET counted == SelectSeq(sold_items,
                       LAMBDA i : i.date_sold # None /\ actual_profit(i) # None)
        keys == {MonthKey(Val(counted[k].date_sold)) : k \in 1..Len(counted)}
        monthly_sorted == SortedSeqOfSet(keys)
        InMonth(m) == SelectSeq(counted, LAMBDA i : MonthKey(Val(i.date_sold)) = m)
        Total(m) == SumSeq([k \in 1..Len(InMonth(m)) |->
                               Val(actual_profit(InMonth(m)[k]))])
    IN  [k \in 1..Len(monthly_sorted) |->
            [month |-> monthly_sorted[k], profit |-> Total(monthly_sorted[k])]]

\* sorted(profitable, key=actual_profit, reverse=True)
ByProfitDesc(sold) ==
    LET with_profit == SelectSeq(sold, LAMBDA i : actual_profit(i) # None)
    IN  ItemsOf(SortDesc([k \in 1..Len(with_profit) |->
            [key |-> Key(Val(actual_profit(with_profit[k]))),
             item |-> with_profit[k]]]))

TopItems(sold_items) ==
    LET top_items == Take(ByProfitDesc(sold_items), 10)
    IN  [k \in 1..Len(top_items) |->
            [description |-> top_items[k].description,
             profit |-> actual_profit(top_items[k])]]

TopByEfficiency(sold_items) ==
    LET efficient == SelectSeq(sold_items,
                         LAMBDA i : /\ profit_per_day(i) # None
                                    /\ Val(profit_per_day(i)) > 0)
        top_by_efficiency ==
            Take(ItemsOf(SortDesc([k \in 1..Len(efficient) |->
                     [key |-> Key(Val(profit_per_day(efficient[k]))),
                      item |-> efficient[k]]])), 10)
    IN  [k \in 1..Len(top_by_efficiency) |->
            [description |-> top_by_efficiency[k].description,
             profit_per_day |-> profit_per_day(top_by_efficiency[k]),
             days |-> days_to_sell(top_by_efficiency[k])]]

\* avg_margin, in ten-thousandths
AvgMargin(sold_items) ==
    LET with_margin == SelectSeq(sold_items, LAMBDA i : actual_margin(i) # None)
        margins == [k \in 1..Len(with_margin) |-> Val(actual_margin(with_margin[k]))]
    IN  IF margins # <<>>
        THEN RoundHalfEven(SumSeq(margins), Len(margins))
        ELSE 0

\* faulty variant: with no timed sale the mean defaults to 1 day, as days_biz does
AvgDays_default_one(sold_items) ==
    LET timed == SelectSeq(sold_items,
                     LAMBDA i : days_to_sell(i) # None /\ Val(days_to_sell(i)) > 0)
        days_list == [k \in 1..Len(timed) |-> Val(days_to_sell(timed[k]))]
    IN  IF days_list # <<>>
        THEN RoundHalfEven(10 * SumSeq(days_list), Len(days_list))
        ELSE 10

\* avg_days_to_sell, in tenths
AvgDays(sold_items) ==
    LET timed == SelectSeq(sold_items,
                     LAMBDA i : days_to_sell(i) # None /\ Val(days_to_sell(i)) > 0)
        days_list == [k \in 1..Len(timed) |-> Val(days_to_sell(timed[k]))]
    IN  IF days_list # <<>>
        THEN RoundHalfEven(10 * SumSeq(days_list), Len(days_list))
        ELSE 0

\* faulty variant: the guard is the truthiness of total_spent
MoneyMultiplier_if_nonzero(total_revenue, total_spent) ==
    IF total_spent # 0
    THEN IF total_spent > 0 THEN RoundHalfEven(10 * total_revenue, total_spent)
         ELSE RoundHalfEven(-10 * total_revenue, -total_spent)
    ELSE 0

\* round(total_revenue / total_spent, 1) if total_spent > 0 else 0, in tenths
MoneyMultiplier(total_revenue, total_spent) ==
    IF total_spent > 0
    THEN RoundHalfEven(10 * total_revenue, total_spent)
    ELSE 0

StatsBody(all_items) ==
    LET sold_items == SelectSeq(all_items, IsSold)
        listed_items == SelectSeq(all_items, IsListed)
        total_spent == SumSeq([k \in 1..Len(all_items) |-> OrZero(all_items[k].cost)])
        total_revenue ==
            SumSeq([k \in 1..Len(sold_items) |-> OrZero(sold_items[k].sold_for)])
        total_profit ==
            SumSeq([k \in 1..Len(sold_items) |-> OrZero(actual_profit(sold_items[k]))])
        current_invested ==
            SumSeq([k \in 1..Len(listed_items) |-> OrZero(listed_items[k].cost)])
        predicted ==
            SumSeq([k \in 1..Len(listed_items) |->
                       OrZero(predicted_profit(listed_items[k]))])
        days_biz == DaysInBusiness(sold_items)
    IN  [total_items |-> Len(all_items),
         sold_count |-> Len(sold_items),
         listed_count |-> Len(listed_items),
         total_spent |-> total_spent,
         total_revenue |-> total_revenue,
         total_profit |-> total_profit,
         current_invested |-> current_invested,
         predicted_profit |-> predicted,
         avg_margin |-> AvgMargin(sold_items),
         avg_days_to_sell |-> AvgDays(sold_items),
         weekly_profit |-> PerPeriod(total_profit, 100, days_biz, 7),
         money_multiplier |-> MoneyMultiplier(total_revenue, total_spent),
         monthly_profit |-> MonthlyProfit(sold_items),
         top_items |-> TopItems(sold_items),
         top_by_efficiency |-> TopByEfficiency(sold_items)]

get_stats ==
    /\ req' = Request("get_stats", None)
    /\ UNCHANGED today
    /\ resp' = Response("get_stats", 200, StatsBody(items))
    /\ UNCHANGED items

(***************************************************************************)
(* /api/analytics: the flips, ROI champions, speed demons and scorecard.    *)
(***************************************************************************)
\* round(n / d) for d # 0
RoundDiv(n, d) == IF d > 0 THEN RoundHalfEven(n, d) ELSE RoundHalfEven(-n, -d)

\* round(i.actual_margin * 100) if i.actual_margin else 0
MarginPct(i) ==
    IF Truthy(actual_margin(i)) THEN RoundHalfEven(Val(actual_margin(i)), 100) ELSE 0

FlipEntry(i) ==
    [desc |-> i.description, cost |-> i.cost, sold |-> i.sold_for,
     profit |-> actual_profit(i), days |-> days_to_sell(i), margin |-> MarginPct(i)]

BestFlips(sold) ==
    LET best == Take(ByProfitDesc(sold), 5)
    IN  [k \in 1..Len(best) |-> FlipEntry(best[k])]

\* faulty variant: the items already among the best five are left out
WorstFlips_deduplicated(sold) ==
    LET sorted_profit == ByProfitDesc(sold)
        worst == LastN(SubSeq(sorted_profit, Min(5, Len(sorted_profit)) + 1,
                              Len(sorted_profit)), 3)
    IN  [k \in 1..Len(worst) |-> FlipEntry(worst[k])]

WorstFlips(sold) ==
    LET worst == LastN(ByProfitDesc(sold), 3)
    IN  [k \in 1..Len(worst) |-> FlipEntry(worst[k])]

RoiChampions(sold) ==
    LET paid == SelectSeq(sold, LAMBDA i : Truthy(i.cost) /\ Val(i.cost) > 0
                                           /\ actual_profit(i) # None)
        roi_items ==
            Take(ItemsOf(SortDesc([k \in 1..Len(paid) |->
                     [key |-> Ratio(Val(actual_profit(paid[k])), Val(paid[k].cost)),
                      item |-> paid[k]]])), 7)
    IN  [k \in 1..Len(roi_items) |->
            [desc |-> roi_items[k].description, cost |-> roi_items[k].cost,
             sold |-> roi_items[k].sold_for,
             roi |-> RoundHalfEven(100 * Val(actual_profit(roi_items[k])),
                                   Val(roi_items[k].cost))]]

SpeedDemons(sold) ==
    LET timed == SelectSeq(sold, LAMBDA i : days_to_sell(i) # None
                                            /\ Val(days_to_sell(i)) >= 0)
        fast == Take(ItemsOf(SortAsc([k \in 1..Len(timed) |->
                         [key |-> Key(Val(days_to_sell(timed[k]))),
                          item |-> timed[k]]])), 7)
    IN  [k \in 1..Len(fast) |->
            [desc |-> fast[k].description, days |-> days_to_sell(fast[k]),
             profit |-> actual_profit(fast[k]), ppd |-> profit_per_day(fast[k])]]

\* max(sold, key=lambda x: x.actual_profit or 0), sold non-empty
Biggest(sold) ==
    sold[FirstMaxIdx([k \in 1..Len(sold) |-> OrZero(actual_profit(sold[k]))])]

\* f"... (${biggest.actual_profit:.0f})" raises TypeError on None
BiggestWinRaises(sold) == sold # <<>> /\ actual_profit(Biggest(sold)) = None

BiggestWin(sold) ==
    IF sold # <<>>
    THEN [description |-> Biggest(sold).description,
          profit |-> RoundHalfEven(Val(actual_profit(Biggest(sold))), 100)]
    ELSE "N/A"

FastestFlip(sold) ==
    LET timed == SelectSeq(sold, LAMBDA i : Truthy(days_to_sell(i))
                                            /\ Val(days_to_sell(i)) > 0)
        first == SortAsc([k \in 1..Len(timed) |->
                     [key |-> Key(Val(days_to_sell(timed[k]))), item |-> timed[k]]])
    IN  IF timed # <<>>
        THEN [description |-> first[1].item.description,
              days |-> Val(days_to_sell(first[1].item))]
        ELSE "N/A"

Scorecard(sold) ==
    LET total_cost == SumSeq([k \in 1..Len(sold) |-> OrZero(sold[k].cost)])
        total_revenue == SumSeq([k \in 1..Len(sold) |-> OrZero(sold[k].sold_for)])
        total_profit == SumSeq([k \in 1..Len(sold) |-> OrZero(actual_profit(sold[k]))])
        days_biz == DaysInBusiness(sold)
        with_margin == SelectSeq(sold, LAMBDA i : actual_margin(i) # None)
        margins == [k \in 1..Len(with_margin) |-> Val(actual_margin(with_margin[k]))]
    IN  [days_in_business |-> days_biz,
         weekly_profit |-> PerPeriod(total_profit, 100, days_biz, 7),
         monthly_profit |-> PerPeriod(total_profit, 100, days_biz, 30),
         annualized_profit |-> PerPeriod(total_profit, 100, days_biz, 365),
         avg_flip_cost |-> IF sold # <<>>
                          THEN RoundHalfEven(total_cost, 100 * Len(sold)) ELSE 0,
         avg_sale_price |-> IF sold # <<>>
                           THEN RoundHalfEven(total_revenue, 100 * Len(sold)) ELSE 0,
         money_multiplier |-> IF total_cost # 0
                              THEN RoundDiv(10 * total_revenue, total_cost) ELSE 0,
         profit_per_dollar |-> IF total_cost # 0
                               THEN RoundDiv(100 * total_profit, total_cost) ELSE 0,
         items_per_week |-> PerPeriod(10 * Len(sold), 1, days_biz, 7),
         avg_margin |-> IF margins # <<>>
                        THEN RoundHalfEven(SumSeq(margins), 100 * Len(margins)) ELSE 0,
         biggest_win |-> BiggestWin(sold),
         fastest_flip |-> FastestFlip(sold),
         total_items_sold |-> Len(sold),
         total_invested |-> RoundHalfEven(total_cost, 100),
         total_revenue |-> RoundHalfEven(total_revenue, 100),
         total_profit |-> RoundHalfEven(total_profit, 100)]

(***************************************************************************)
(* /api/analytics: the category table.  `kw in desc` is substring search   *)
(* on the characters of the lowercased description.                        *)
(***************************************************************************)
\* the characters of the strings of the model
Chars(str) ==
    CASE str = "oak table" -> <<"o", "a", "k", " ", "t", "a", "b", "l", "e">>
      [] str = "lamp" -> <<"l", "a", "m", "p">>
      [] str = "rug" -> <<"r", "u", "g">>
      [] str = "desk" -> <<"d", "e", "s", "k">>
      [] str = "chair" -> <<"c", "h", "a", "i", "r">>
      [] str = "Desk Lamp" -> <<"D", "e", "s", "k", " ", "L", "a", "m", "p">>
      [] str = "rugged stool" -> <<"r", "u", "g", "g", "e", "d", " ", "s", "t", "o", "o", "l">>
      [] str = "vase" -> <<"v", "a", "s", "e">>
      [] str = "Mirror" -> <<"M", "i", "r", "r", "o", "r">>
      [] str = "bench" -> <<"b", "e", "n", "c", "h">>
      [] str = "lot 1" -> <<"l", "o", "t", " ", "1">>
      [] str = "lot 2" -> <<"l", "o", "t", " ", "2">>
      [] str = "lot 3" -> <<"l", "o", "t", " ", "3">>
      [] str = "lot 4" -> <<"l", "o", "t", " ", "4">>
      [] str = "lot 5" -> <<"l", "o", "t", " ", "5">>
      [] str = "lot 6" -> <<"l", "o", "t", " ", "6">>
      [] str = "lot 7" -> <<"l", "o", "t", " ", "7">>
      [] str = "lot 8" -> <<"l", "o", "t", " ", "8">>
      [] str = "lot 9" -> <<"l", "o", "t", " ", "9">>
      [] str = "lot 10" -> <<"l", "o", "t", " ", "1", "0">>
      [] str = "lot 11" -> <<"l", "o", "t", " ", "1", "1">>
      [] str = "lot 12" -> <<"l", "o", "t", " ", "1", "2">>
      [] str = "lot 13" -> <<"l", "o", "t", " ", "1", "3">>
      [] str = "table" -> <<"t", "a", "b", "l", "e">>
      [] str = "stool" -> <<"s", "t", "o", "o", "l">>
      [] str = "dresser" -> <<"d", "r", "e", "s", "s", "e", "r">>
      [] str = "night stand" -> <<"n", "i", "g", "h", "t", " ", "s", "t", "a", "n", "d">>
      [] str = "sideboard" -> <<"s", "i", "d", "e", "b", "o", "a", "r", "d">>
      [] str = "mirror" -> <<"m", "i", "r", "r", "o", "r">>
      [] str = "picture" -> <<"p", "i", "c", "t", "u", "r", "e">>
      [] str = "ottoman" -> <<"o", "t", "t", "o", "m", "a", "n">>
      [] str = "hutch" -> <<"h", "u", "t", "c", "h">>
      [] str = "shelf" -> <<"s", "h", "e", "l", "f">>

UpperCase == <<"A", "B", "C", "D", "E", "F", "G", "H", "I", "J", "K", "L", "M",
               "N", "O", "P", "Q", "R", "S", "T", "U", "V", "W", "X", "Y", "Z">>
LowerCase == <<"a", "b", "c", "d", "e", "f", "g", "h", "i", "j", "k", "l", "m",
               "n", "o", "p", "q", "r", "s", "t", "u", "v", "w", "x", "y", "z">>

\* str.lower() on a sequence of characters
Lower(s) ==
    [k \in 1..Len(s) |->
        IF \E u \in 1..Len(UpperCase) : UpperCase[u] = s[k]
        THEN LowerCase[CHOOSE u \in 1..Len(UpperCase) : UpperCase[u] = s[k]]
        ELSE s[k]]

\* kw in desc
Occurs(kw, desc) ==
    \E k \in 1..(Len(desc) - Len(kw) + 1) : SubSeq(desc, k, k + Len(kw) - 1) = kw

\* the if / elif chain, in its order; a description no rule matches is 'Other'
CategoryRules ==
    << [cat |-> "Tables/Desks", keywords |-> {"table", "desk"}],
       [cat |-> "Chairs/Seating", keywords |-> {"chair", "stool"}],
       [cat |-> "Dressers/Storage", keywords |-> {"dresser", "night stand", "sideboard"}],
       [cat |-> "Decor/Wall Art", keywords |-> {"mirror", "picture"}],
       [cat |-> "Rugs", keywords |-> {"rug"}],
       [cat |-> "Benches/Ottomans", keywords |-> {"bench", "ottoman"}],
       [cat |-> "Hutch/Shelving", keywords |-> {"hutch", "shelf"}],
       [cat |-> "Lighting", keywords |-> {"lamp"}] >>

\* faulty variant: the last rule that matches decides
CategoryOf_last_rule(i) ==
    LET desc == Lower(Chars(i.description))
        Hit(r) == \E kw \in CategoryRules[r].keywords : Occurs(Chars(kw), desc)
    IN  IF \E r \in 1..Len(CategoryRules) : Hit(r)
        THEN CategoryRules[CHOOSE r \in 1..Len(CategoryRules) :
                               Hit(r) /\ \A q \in (r + 1)..Len(CategoryRules) : ~Hit(q)].cat
        ELSE "Other"

CategoryOf(i) ==
    LET desc == Lower(Chars(i.description))
        Hit(r) == \E kw \in CategoryRules[r].keywords : Occurs(Chars(kw), desc)
    IN  IF \E r \in 1..Len(CategoryRules) : Hit(r)
        THEN CategoryRules[CHOOSE r \in 1..Len(CategoryRules) :
                               Hit(r) /\ \A q \in 1..(r - 1) : ~Hit(q)].cat
        ELSE "Other"

\* round(sum(days) / len(days), 1) over the positive days_to_sell, else 0
AvgPositiveDays(rows) ==
    LET timed == SelectSeq(rows, LAMBDA i : Truthy(days_to_sell(i))
                                            /\ Val(days_to_sell(i)) > 0)
        d == [k \in 1..Len(timed) |-> Val(days_to_sell(timed[k]))]
    IN  IF d # <<>> THEN RoundHalfEven(10 * SumSeq(d), Len(d)) ELSE 0

ProfitOrZero(rows) == SumSeq([k \in 1..Len(rows) |-> OrZero(actual_profit(rows[k]))])

Categories(sold) ==
    LET \* the category each item is appended to
        cat_of == [k \in 1..Len(sold) |-> CategoryOf(sold[k])]
        \* the keys of the dict, in the order they were first inserted
        first == SelectSeq([k \in 1..Len(sold) |-> k],
                     LAMBDA k : \A j \in 1..(k - 1) : cat_of[j] # cat_of[k])
        items_list(cat) ==
            LET at == SelectSeq([k \in 1..Len(sold) |-> k], LAMBDA k : cat_of[k] = cat)
            IN  [k \in 1..Len(at) |-> sold[at[k]]]
        ordered == ItemsOf(SortDesc([k \in 1..Len(first) |->
                       [key |-> Key(ProfitOrZero(items_list(cat_of[first[k]]))),
                        item |-> cat_of[first[k]]]]))
        Entry(cat) ==
            LET l == items_list(cat)
                tp == ProfitOrZero(l)
            IN  [category |-> cat,
                 count |-> Len(l),
                 total_profit |-> RoundHalfEven(tp, 100),
                 avg_profit |-> RoundHalfEven(tp, 100 * Len(l)),
                 avg_cost |-> RoundHalfEven(
                     SumSeq([k \in 1..Len(l) |-> OrZero(l[k].cost)]), 100 * Len(l)),
                 avg_days |-> AvgPositiveDays(l)]
    IN  [k \in 1..Len(ordered) |-> Entry(ordered[k])]

(***************************************************************************)
(* /api/analytics: the bracket tables.  A bracket is (label, lo, hi) with  *)
(* both bounds inclusive; the money bounds are dollars.                    *)
(***************************************************************************)
Bracket(label, lo, hi) == [label |-> label, lo |-> lo, hi |-> hi]

cost_brackets_def ==
    << Bracket("Free ($0)", 0, 0), Bracket("$1-15", 1, 15),
       Bracket("$16-30", 16, 30), Bracket("$31-50", 31, 50),
       Bracket("$51+", 51, 99999) >>

speed_def ==
    << Bracket("Same day", 0, 1), Bracket("Quick (2-7d)", 2, 7),
       Bracket("Medium (8-14d)", 8, 14), Bracket("Slow (15-30d)", 15, 30),
       Bracket("Very slow (31+d)", 31, 99999) >>

price_def ==
    << Bracket("$0-50", 0, 50), Bracket("$51-100", 51, 100),
       Bracket("$101-200", 101, 200), Bracket("$201-300", 201, 300),
       Bracket("$300+", 301, 99999) >>

\* lo <= amount <= hi, amount in cents
InDollarRange(r, amount) == USD(r.lo) <= amount /\ amount <= USD(r.hi)

RECURSIVE GCD(_, _)
GCD(a, b) == IF b = 0 THEN a ELSE GCD(b, a % b)

\* the fraction n/d, d > 0, in lowest terms
Reduced(n, d) ==
    LET g == GCD(IF n < 0 THEN -n ELSE n, d)
    IN  [n |-> n \div g, d |-> d \div g]

\* the exact sum of a sequence of fractions
RECURSIVE SumRatios(_)
SumRatios(s) ==
    IF s = <<>> THEN Key(0)
    ELSE LET rest == SumRatios(Tail(s))
         IN  Reduced(s[1].n * rest.d + rest.n * s[1].d, s[1].d * rest.d)

\* round(sum(profit / cost * 100) / len(roi_items)) if roi_items else 0
AvgRoi(b) ==
    LET roi_items == SelectSeq(b, LAMBDA i : Truthy(i.cost) /\ Val(i.cost) > 0
                                             /\ actual_profit(i) # None)
        total == SumRatios([k \in 1..Len(roi_items) |->
                     Reduced(Val(actual_profit(roi_items[k])), Val(roi_items[k].cost))])
    IN  IF roi_items # <<>>
        THEN RoundHalfEven(100 * total.n, total.d * Len(roi_items))
        ELSE 0

InCostBracket(r, i) == i.cost # None /\ InDollarRange(r, Val(i.cost))

CostBrackets(sold) ==
    LET \* the brackets that hold an item, in the order of the table
        found == SelectSeq(cost_brackets_def,
                     LAMBDA r : SelectSeq(sold, LAMBDA i : InCostBracket(r, i)) # <<>>)
        Entry(r) ==
            LET b == SelectSeq(sold, LAMBDA i : InCostBracket(r, i))
                tp == ProfitOrZero(b)
            IN  [bracket |-> r.label,
                 count |-> Len(b),
                 total_profit |-> RoundHalfEven(tp, 100),
                 avg_profit |-> RoundHalfEven(tp, 100 * Len(b)),
                 avg_roi |-> AvgRoi(b)]
    IN  [k \in 1..Len(found) |-> Entry(found[k])]

InSpeedBracket(r, i) ==
    /\ days_to_sell(i) # None
    /\ r.lo <= Val(days_to_sell(i))
    /\ Val(days_to_sell(i)) <= r.hi

SpeedAnalysis(sold) ==
    LET \* the brackets that hold an item, in the order of the table
        found == SelectSeq(speed_def,
                     LAMBDA r : SelectSeq(sold, LAMBDA i : InSpeedBracket(r, i)) # <<>>)
        Entry(r) ==
            LET b == SelectSeq(sold, LAMBDA i : InSpeedBracket(r, i))
                tp == ProfitOrZero(b)
            IN  [bracket |-> r.label,
                 count |-> Len(b),
                 total_profit |-> RoundHalfEven(tp, 100),
                 avg_profit |-> RoundHalfEven(tp, 100 * Len(b))]
    IN  [k \in 1..Len(found) |-> Entry(found[k])]

InPriceBracket(r, i) == Truthy(i.sold_for) /\ InDollarRange(r, Val(i.sold_for))

PriceBrackets(sold) ==
    LET \* the brackets that hold an item, in the order of the table
        found == SelectSeq(price_def,
                     LAMBDA r : SelectSeq(sold, LAMBDA i : InPriceBracket(r, i)) # <<>>)
        Entry(r) ==
            LET b == SelectSeq(sold, LAMBDA i : InPriceBracket(r, i))
                tp == ProfitOrZero(b)
            IN  [bracket |-> r.label,
                 count |-> Len(b),
                 total_profit |-> RoundHalfEven(tp, 100),
                 avg_profit |-> RoundHalfEven(tp, 100 * Len(b)),
                 avg_days |-> AvgPositiveDays(b)]
    IN  [k \in 1..Len(found) |-> Entry(found[k])]

(***************************************************************************)
(* /api/analytics: negotiation, day of week, inventory aging.              *)
(***************************************************************************)
Negotiated(sold) ==
    SelectSeq(sold, LAMBDA i : /\ Truthy(i.listing_price)
                               /\ Val(i.listing_price) > 0
                               /\ Truthy(i.sold_for))

\* round((1 - total_got / total_asked) * 100, 1) if total_asked else 0, in tenths
AvgDiscountPct(total_got, total_asked) ==
    IF total_asked # 0
    THEN RoundDiv(1000 * (total_asked - total_got), total_asked)
    ELSE 0

Negotiation(sold) ==
    LET negotiated == Negotiated(sold)
        total_asked == SumSeq([k \in 1..Len(negotiated) |->
                           Val(negotiated[k].listing_price)])
        total_got == SumSeq([k \in 1..Len(negotiated) |-> Val(negotiated[k].sold_for)])
        above == SelectSeq(negotiated,
                     LAMBDA i : Val(i.sold_for) > Val(i.listing_price))
        at_price == SelectSeq(negotiated,
                        LAMBDA i : Val(i.sold_for) = Val(i.listing_price))
        below == SelectSeq(negotiated,
                     LAMBDA i : Val(i.sold_for) < Val(i.listing_price))
    IN  [total_items |-> Len(negotiated),
         total_asked |-> RoundHalfEven(total_asked, 100),
         total_got |-> RoundHalfEven(total_got, 100),
         avg_discount_pct |-> AvgDiscountPct(total_got, total_asked),
         above_asking |-> Len(above),
         at_asking |-> Len(at_price),
         below_asking |-> Len(below),
         above_items |->
             [k \in 1..Len(above) |->
                 [desc |-> above[k].description,
                  asked |-> above[k].listing_price,
                  got |-> above[k].sold_for,
                  bonus |-> RoundHalfEven(
                      Val(above[k].sold_for) - Val(above[k].listing_price), 100)]]]

day_names ==
    <<"Monday", "Tuesday", "Wednesday", "Thursday", "Friday", "Saturday", "Sunday">>

\* date.weekday(): 0 is Monday, and day 0 is a Monday
weekday(d) == d % 7

DayOfWeek(sold) ==
    LET dated == SelectSeq(sold, LAMBDA i : i.date_sold # None)
        On(n) == SelectSeq(dated, LAMBDA i : weekday(Val(i.date_sold)) = n - 1)
        days == SelectSeq([n \in 1..Len(day_names) |-> n], LAMBDA n : On(n) # <<>>)
    IN  [k \in 1..Len(days) |->
            [day |-> day_names[days[k]],
             count |-> Len(On(days[k])),
             profit |-> RoundHalfEven(ProfitOrZero(On(days[k])), 100),
             avg_profit |-> RoundHalfEven(ProfitOrZero(On(days[k])),
                                          100 * Len(On(days[k])))]]

\* (today - x.date_bought).days if x.date_bought else 0
AgeDays(i, now) == IF i.date_bought # None THEN now - Val(i.date_bought) ELSE 0

\* faulty variant: an item is stale from day 60 on
AgingStatus_from_60(age) ==
    IF age >= 60 THEN "Stale" ELSE IF age > 30 THEN "Aging" ELSE "Fresh"

AgingStatus(age) ==
    IF age > 60 THEN "Stale" ELSE IF age > 30 THEN "Aging" ELSE "Fresh"

InventoryAging(listed, now) ==
    LET ordered == ItemsOf(SortDesc([k \in 1..Len(listed) |->
                       [key |-> Key(AgeDays(listed[k], now)), item |-> listed[k]]]))
    IN  [k \in 1..Len(ordered) |->
            [id |-> ordered[k].id,
             description |-> ordered[k].description,
             age_days |-> AgeDays(ordered[k], now),
             cost |-> ordered[k].cost,
             listing_price |-> ordered[k].listing_price,
             predicted_profit |-> predicted_profit(ordered[k]),
             status |-> AgingStatus(AgeDays(ordered[k], now))]]

AnalyticsBody(all_items, now) ==
    LET sold == SelectSeq(all_items, IsSold)
        listed == SelectSeq(all_items, IsListed)
    IN  [categories |-> Categories(sold),
         cost_brackets |-> CostBrackets(sold),
         speed_analysis |-> SpeedAnalysis(sold),
         price_brackets |-> PriceBrackets(sold),
         negotiation |-> Negotiation(sold),
         day_of_week |-> DayOfWeek(sold),
         inventory_aging |-> InventoryAging(listed, now),
         best_flips |-> BestFlips(sold),
         worst_flips |-> WorstFlips(sold),
         roi_champions |-> RoiChampions(sold),
         speed_demons |-> SpeedDemons(sold),
         scorecard |-> Scorecard(sold)]

get_analytics ==
    /\ req' = Request("get_analytics", None)
    /\ UNCHANGED today
    /\ resp' = IF BiggestWinRaises(SelectSeq(items, IsSold))
               THEN Response("get_analytics", 500, "TypeError")
               ELSE Response("get_analytics", 200, AnalyticsBody(items, today))
    /\ UNCHANGED items

(***************************************************************************)
(* The item API.  A request body is a record of JSON values, one per key.  *)
(***************************************************************************)
\* The exception building the row raises, or None: data['description'] on a
\* missing key, float() of a non-numeric cost, NOT NULL on commit.
RequestError(data) ==
    IF data.description = Absent THEN Some("KeyError")
    ELSE IF ParseCost(data.cost) = None THEN Some("ValueError")
    ELSE IF data.description = JNull THEN Some("IntegrityError")
    ELSE None

\* the row a valid body describes; status: what a missing 'status' key reads as
RowOf(id, data, status) ==
    [id |-> id,
     date_bought |-> _parse_date(Get(data.date_bought)),
     date_sold |-> _parse_date(Get(data.date_sold)),
     description |-> data.description.s,
     cost |-> ParseCost(data.cost),
     listing_price |-> _parse_float(Get(data.listing_price)),
     sold_for |-> _parse_float(Get(data.sold_for)),
     status |-> ParseStatus(data.status, status),
     notes |-> ParseNotes(data.notes)]

create_item(data) ==
    /\ Len(items) < MaxItems
    /\ NextId <= MaxId
    /\ req' = JsonRequest("create_item", None, data)
    /\ UNCHANGED today
    /\ IF RequestError(data) # None
       THEN /\ resp' = Response("create_item", 500, Val(RequestError(data)))
            /\ UNCHANGED items
       ELSE LET item == RowOf(NextId, data, Some("Listed"))
            IN  /\ items' = Append(items, item)
                /\ resp' = Response("create_item", 201, to_dict(item))

\* faulty variant: the response is built before the fields are assigned
UpdateResponse_stale(old, item) == Response("update_item", 200, to_dict(old))

UpdateResponse(old, item) == Response("update_item", 200, to_dict(item))

\* faulty variant: the row is deleted and inserted again, under a new rowid
UpdatedRows_reinsert(k, item) ==
    Append(SelectSeq(items, LAMBDA i : i.id # items[k].id),
           [item EXCEPT !.id = NextId])

\* the table after the commit of an update of the row at position k
UpdatedRows(k, item) == [items EXCEPT ![k] = item]

update_item(item_id, data) ==
    /\ req' = JsonRequest("update_item", Some(item_id), data)
    /\ UNCHANGED today
    /\ IF ~HasId(item_id)
       THEN /\ resp' = Response("update_item", 404, None)
            /\ UNCHANGED items
       ELSE IF RequestError(data) # None
       THEN /\ resp' = Response("update_item", 500, Val(RequestError(data)))
            /\ UNCHANGED items
       ELSE LET k == IndexOf(item_id)
                item == RowOf(item_id, data, items[k].status)
            IN  /\ items' = UpdatedRows(k, item)
                /\ resp' = UpdateResponse(items[k], item)

delete_item(item_id) ==
    /\ req' = Request("delete_item", Some(item_id))
    /\ UNCHANGED today
    /\ IF ~HasId(item_id)
       THEN /\ resp' = Response("delete_item", 404, None)
            /\ UNCHANGED items
       ELSE /\ items' = SelectSeq(items, LAMBDA i : i.id # item_id)
            /\ resp' = Response("delete_item", 200, "Item deleted")

(***************************************************************************)
(* The exports: read-only queries; the body is the ids of the rows they    *)
(* select (sold rows in the date range by date_sold, then listed rows).    *)
(***************************************************************************)
ExportRows(start, end, include_listed) ==
    LET in_range == SelectSeq(items,
            LAMBDA i : /\ IsSold(i)
                       /\ start # None => (i.date_sold # None /\ Val(i.date_sold) >= Val(start))
                       /\ end # None => (i.date_sold # None /\ Val(i.date_sold) <= Val(end)))
        \* ORDER BY date_sold: NULLs first, ties in rowid order
        sold_items == ItemsOf(SortAsc([k \in 1..Len(in_range) |->
            [key |-> Key(IF in_range[k].date_sold = None THEN -1
                         ELSE Val(in_range[k].date_sold)),
             item |-> in_range[k]]]))
        listed_items == IF include_listed THEN SelectSeq(items, IsListed) ELSE <<>>
    IN  [sold |-> [k \in 1..Len(sold_items) |-> sold_items[k].id],
         listed |-> [k \in 1..Len(listed_items) |-> listed_items[k].id]]

generate_excel(start_date, end_date, include_listed) ==
    /\ req' = Request("generate_excel", None)
    /\ UNCHANGED today
    /\ resp' = Response("generate_excel", 200,
                   ExportRows(_parse_date(start_date), _parse_date(end_date),
                              include_listed))
    /\ UNCHANGED items

generate_tax_pdf(start_date, end_date, include_listed) ==
    /\ req' = Request("generate_tax_pdf", None)
    /\ UNCHANGED today
    /\ resp' = Response("generate_tax_pdf", 200,
                   ExportRows(_parse_date(start_date), _parse_date(end_date),
                              include_listed))
    /\ UNCHANGED items

\* GET /api/items: ORDER BY date_bought DESC NULLS LAST (ties in rowid order;
\* no date is before day 0, so -1 sorts the NULLs last)
get_items(status_filter) ==
    LET found == IF status_filter # None
                 THEN SelectSeq(items, LAMBDA i : i.status = status_filter)
                 ELSE items
        ordered == ItemsOf(SortDesc([k \in 1..Len(found) |->
            [key |-> Key(IF found[k].date_bought = None THEN -1
                         ELSE Val(found[k].date_bought)),
             item |-> found[k]]]))
    IN  /\ req' = Request("get_items", None)
        /\ UNCHANGED today
        /\ resp' = Response("get_items", 200,
                       [k \in 1..Len(ordered) |-> to_dict(ordered[k])])
        /\ UNCHANGED items

(***************************************************************************)
(* import_data.py: a spreadsheet is a sequence of rows of cells.  An empty *)
(* cell is JNull, a date cell DateCell(d).                                 *)
(***************************************************************************)
DateCell(d) == [t |-> "datetime", d |-> d]

_to_date(val) == IF val.t = "datetime" THEN Some(val.d) ELSE None

_to_float(val) ==
    IF val.t = "num" /\ val.n >= 0 THEN Some(val.n) ELSE None

\* str.strip() and str.strip().lower() on the strings of the model
Strip(str) == IF str = " lamp " THEN "lamp" ELSE str

StripLower(str) ==
    IF str \in {"Sold", "sold", " SOLD "} THEN "sold"
    ELSE IF str \in {"Listed", "listed"} THEN "listed"
    ELSE IF str = "Pending" THEN "pending"
    ELSE str

ImportStatus(status, db_sold_for, db_sold) ==
    IF status.t = "str" /\ status.s # ""
    THEN IF StripLower(status.s) = "sold" THEN "Sold" ELSE "Listed"
    ELSE IF Truthy(db_sold_for) /\ db_sold # None THEN "Sold" ELSE "Listed"

ImportRow(row) ==
    [id |-> 0,
     date_bought |-> _to_date(row.date_bought),
     date_sold |-> _to_date(row.date_sold),
     description |-> Strip(row.description.s),
     cost |-> Some(OrZero(_to_float(row.cost))),
     listing_price |-> _to_float(row.listing_price),
     sold_for |-> _to_float(row.sold_for),
     status |-> Some(ImportStatus(row.status, _to_float(row.sold_for),
                                  _to_date(row.date_sold))),
     notes |-> None]

\* import_excel: rows without a description are skipped
import_excel(sheet) ==
    LET described == SelectSeq(sheet, LAMBDA row : ~Falsy(row.description))
    IN  [k \in 1..Len(described) |-> ImportRow(described[k])]

\* the table after the run: emptied, then the new rows under rowids 1, 2, ...
ImportedItems(sheet) ==
    [k \in 1..Len(import_excel(sheet)) |->
        [import_excel(sheet)[k] EXCEPT !.id = k]]

ImportRun(sheet) ==
    /\ items' = ImportedItems(sheet)
    /\ req' = Request("import_data", None)
    /\ UNCHANGED today
    /\ resp' = Response("import_data", 0, Len(import_excel(sheet)))

(***************************************************************************)
(* The ledger under requests.                                              *)
(***************************************************************************)
EmptyBody ==
    [date_bought |-> Absent, date_sold |-> Absent, description |-> Absent,
     cost |-> Absent, listing_price |-> Absent, sold_for |-> Absent,
     status |-> Absent, notes |-> Absent]

Payloads ==
    { \* only a description: a Listed item that cost 0
      [EmptyBody EXCEPT !.description = JStr("oak table")],
      \* a complete sale
      [EmptyBody EXCEPT !.description = JStr("oak table"),
                        !.date_bought = isoformat(0), !.date_sold = isoformat(10),
                        !.cost = JNum(USD(20)), !.listing_price = JNum(USD(60)),
                        !.sold_for = JNum(USD(50)), !.status = JStr("Sold"),
                        !.notes = JStr("solid oak")],
      \* marked Sold with nothing else recorded
      [EmptyBody EXCEPT !.description = JStr("lamp"), !.status = JStr("Sold"),
                        !.sold_for = JStr(""), !.date_sold = JStr("soon")],
      \* a listing
      [EmptyBody EXCEPT !.description = JStr("lamp"), !.date_bought = isoformat(1),
                        !.cost = JNum(USD(15)), !.listing_price = JNum(USD(15)),
                        !.status = JStr("Listed")],
      \* a negative cost and a status outside Listed / Sold
      [EmptyBody EXCEPT !.description = JStr("rug"), !.cost = JNum(USD(-5)),
                        !.status = JStr("Pending")],
      \* bodies the handlers fail on
      EmptyBody,
      [EmptyBody EXCEPT !.description = JStr("rug"), !.cost = JStr("abc")],
      [EmptyBody EXCEPT !.description = JNull] }

EmptyRow ==
    [date_bought |-> JNull, date_sold |-> JNull, description |-> JNull,
     cost |-> JNull, listing_price |-> JNull, sold_for |-> JNull, status |-> JNull]

SheetRows ==
    { EmptyRow,
      [EmptyRow EXCEPT !.description = JStr("oak table"),
                       !.date_bought = DateCell(0), !.date_sold = DateCell(10),
                       !.cost = JNum(USD(20)), !.listing_price = JNum(USD(60)),
                       !.sold_for = JNum(USD(50)), !.status = JStr(" SOLD ")],
      [EmptyRow EXCEPT !.description = JStr(" lamp "), !.cost = JNum(USD(-5)),
                       !.status = JStr("Pending")] }

Sheets == UNION {[1..n -> SheetRows] : n \in 0..MaxSheetRows}

ExportDates == {Absent, isoformat(1)}

Init ==
    /\ items = <<>>
    /\ req = NoRequest
    /\ resp = NoResponse
    /\ today = 61

Next ==
    \/ \E data \in Payloads : create_item(data)
    \/ \E id \in 1..MaxId : get_item(id)
    \/ \E status \in {None, Some("Sold")} : get_items(status)
    \/ \E id \in 1..MaxId, data \in Payloads : update_item(id, data)
    \/ \E id \in 1..MaxId : delete_item(id)
    \/ get_stats
    \/ get_analytics
    \/ \E start \in ExportDates, include_listed \in BOOLEAN :
           generate_excel(Get(start), JNull, include_listed)
    \/ \E end \in ExportDates, include_listed \in BOOLEAN :
           generate_tax_pdf(JNull, Get(end), include_listed)
    \/ \E sheet \in Sheets : ImportRun(sheet)

Spec == Init /\ [][Next]_vars

(***************************************************************************)
(* The aggregates over long ledgers: the table as an import leaves it,     *)
(* read by /api/stats and /api/analytics.                                  *)
(***************************************************************************)
SoldRow(desc, bought, sold, cost, sold_for) ==
    [EmptyRow EXCEPT !.description = JStr(desc), !.date_bought = bought,
                     !.date_sold = sold, !.cost = JNum(USD(cost)),
                     !.sold_for = JNum(USD(sold_for)), !.status = JStr("Sold")]

\* profit 30 in 10 days; profit 5 the same day at no cost; a loss of 5 with
\* the dates swapped; a row still Listed that carries a sale price of 99
MixedRows ==
    { SoldRow("oak table", DateCell(0), DateCell(10), 20, 50),
      SoldRow("lamp", DateCell(3), DateCell(3), 0, 5),
      SoldRow("rug", DateCell(2), DateCell(1), 10, 5),
      [SoldRow("desk", DateCell(0), DateCell(1), 20, 99)
          EXCEPT !.status = JStr("Listed")] }

\* profit 30 in 10 days; profit 10 in 5 days
BulkRows ==
    { SoldRow("oak table", DateCell(0), DateCell(10), 20, 50),
      SoldRow("chair", DateCell(0), DateCell(5), 5, 15) }

Labels ==
    <<"lot 1", "lot 2", "lot 3", "lot 4", "lot 5", "lot 6", "lot 7", "lot 8",
      "lot 9", "lot 10", "lot 11", "lot 12", "lot 13">>

\* the sheet with its k-th row described as Labels[k]: no two rows alike
Labelled(sheet) ==
    [k \in 1..Len(sheet) |-> [sheet[k] EXCEPT !.description = JStr(Labels[k])]]

RankSheets ==
    UNION {[1..n -> MixedRows] : n \in 0..MaxMixedRows}
        \cup {Labelled(sheet) : sheet \in UNION {[1..n -> BulkRows] : n \in 0..MaxBulkRows}}

InitRank ==
    /\ \E sheet \in RankSheets : items = ImportedItems(sheet)
    /\ req = Request("import_data", None)
    /\ resp = Response("import_data", 0, Len(items))
    /\ today = 61

NextRank ==
    \/ get_stats
    \/ get_analytics

SpecRank == InitRank /\ [][NextRank]_vars

(***************************************************************************)
(* The aggregates over short ledgers of unlike rows, read on two dates.    *)
(***************************************************************************)
BookRow(desc, status, bought, sold, cost, listing_price, sold_for) ==
    [date_bought |-> bought, date_sold |-> sold, description |-> JStr(desc),
     cost |-> cost, listing_price |-> listing_price, sold_for |-> sold_for,
     status |-> JStr(status)]

BookRows ==
    { \* sold in February at a profit of 30, below the asking price
      BookRow("oak table", "Sold", DateCell(25), DateCell(35),
              JNum(USD(20)), JNum(USD(60)), JNum(USD(50))),
      \* sold in January at a profit of 10, above the asking price
      BookRow("Desk Lamp", "Sold", DateCell(0), DateCell(5),
              JNum(USD(5)), JNum(USD(10)), JNum(USD(15))),
      \* sold in January at a loss of 5, the day before it was bought
      BookRow("rugged stool", "Sold", DateCell(2), DateCell(1),
              JNum(USD(10)), JNull, JNum(USD(5))),
      \* cost 15.50, asked 60, given away for 0 on no recorded date
      BookRow("vase", "Sold", DateCell(3), JNull,
              JNum(1550), JNum(USD(60)), JNum(0)),
      \* marked Sold in February with no sale price and no purchase date
      BookRow("Mirror", "Sold", JNull, DateCell(40), JNum(0), JNum(USD(20)), JNull),
      \* in stock since day 0; in stock with no purchase date
      BookRow("lamp", "Listed", DateCell(0), JNull,
              JNum(USD(15)), JNum(USD(15)), JNull),
      BookRow("bench", "Listed", JNull, JNull, JNum(USD(5)), JNull, JNull),
      \* in stock since day 1, with a stray sale date and price
      BookRow("rug", "Listed", DateCell(1), DateCell(40),
              JNum(USD(20)), JNull, JNum(USD(99))) }

BookSheets == UNION {[1..n -> BookRows] : n \in 0..MaxBookRows}

\* 2024-02-01 and 2024-03-02
Todays == {31, 61}

InitBook ==
    /\ \E sheet \in BookSheets : items = ImportedItems(sheet)
    /\ req = Request("import_data", None)
    /\ resp = Response("import_data", 0, Len(items))
    /\ today \in Todays

NextBook ==
    \/ get_stats
    \/ get_analytics

SpecBook == InitBook /\ [][NextBook]_vars

(***************************************************************************)
(* The derivation layer on its own: one Item row with each column drawn    *)
(* from the values its column type admits, read through to_dict and        *)
(* through the two aggregate handlers.                                     *)
(***************************************************************************)
Dates == {None, Some(0), Some(1), Some(10), Some(11)}
Costs == {None, Some(USD(-5)), Some(0), Some(USD(15)), Some(USD(20)), Some(USD(60))}
Prices == {None, Some(USD(-5)), Some(0), Some(USD(15)), Some(USD(50))}
Statuses == {Some("Listed"), Some("Sold"), Some("Pending")}

ItemRows ==
    [id : {1}, date_bought : Dates, date_sold : Dates,
     description : {"oak table"}, cost : Costs, listing_price : Prices,
     sold_for : Prices, status : Statuses, notes : {None}]

InitItem ==
    /\ \E i \in ItemRows : items = <<i>>
    /\ req = NoRequest
    /\ resp = NoResponse
    /\ today = 61

NextItem ==
    \/ \E id \in 1..MaxId : get_item(id)
    \/ get_stats
    \/ get_analytics

SpecItem == InitItem /\ [][NextItem]_vars

(***************************************************************************)
(* Claims about the derivation layer, stated on what to_dict reports.      *)
(***************************************************************************)
ItemReported == resp.op = "get_item" /\ resp.status = 200

\* C1: actual_profit is defined iff sold_for and cost are both present,
\* whatever the status, and then equals sold_for - cost; sold_for 0 with
\* cost 0 gives a defined profit of 0.
C1_ActualProfit ==
    ItemReported =>
        LET b == resp.body
        IN  /\ b.actual_profit # None <=> (b.sold_for # None /\ b.cost # None)
            /\ b.actual_profit # None =>
                   Val(b.actual_profit) = Val(b.sold_for) - Val(b.cost)
            /\ (b.sold_for = Some(0) /\ b.cost = Some(0)) =>
                   b.actual_profit = Some(0)

C1_Witness ==
    /\ ItemReported
    /\ resp.body.status = Some("Listed")
    /\ resp.body.sold_for = Some(0)
    /\ resp.body.cost = Some(0)
    /\ resp.body.actual_profit = Some(0)

\* C2: predicted_profit is None for every Sold item; for any other item it
\* is defined exactly when listing_price is neither None nor 0 and cost is
\* present, and then equals listing_price - cost.
C2_PredictedProfit ==
    ItemReported =>
        LET b == resp.body
        IN  /\ b.status = Some("Sold") => b.predicted_profit = None
            /\ b.status # Some("Sold") =>
                   /\ b.predicted_profit # None <=>
                          /\ b.listing_price # None
                          /\ b.listing_price # Some(0)
                          /\ b.cost # None
                   /\ b.predicted_profit # None =>
                          Val(b.predicted_profit) = Val(b.listing_price) - Val(b.cost)
            /\ (b.status = Some("Listed") /\ b.cost = Some(USD(15))) =>
                   /\ b.listing_price = Some(USD(15)) => b.predicted_profit = Some(0)
                   /\ b.listing_price = None => b.predicted_profit = None

C2_Witness ==
    /\ ItemReported
    /\ resp.body.status = Some("Listed")
    /\ resp.body.cost = Some(USD(15))
    /\ resp.body.listing_price = Some(USD(15))
    /\ resp.body.predicted_profit = Some(0)

\* C3: actual_margin is defined iff sold_for is present and > 0 and cost is
\* present; a defined margin of an item with cost >= 0 is at most 1 (10000
\* ten-thousandths); cost 0 with sold_for 0 has no margin and a profit of 0.
C3_ActualMargin ==
    ItemReported =>
        LET b == resp.body
        IN  /\ b.actual_margin # None <=>
                   /\ b.sold_for # None
                   /\ b.cost # None
                   /\ Val(b.sold_for) > 0
            /\ (b.actual_margin # None /\ Val(b.cost) >= 0) =>
                   Val(b.actual_margin) <= 10000
            /\ (b.cost = Some(0) /\ b.sold_for = Some(0)) =>
                   /\ b.actual_margin = None
                   /\ b.actual_profit = Some(0)

C3_Witness ==
    /\ ItemReported
    /\ resp.body.cost = Some(0)
    /\ resp.body.sold_for = Some(USD(50))
    /\ resp.body.actual_margin = Some(10000)

\* C4: days_to_sell is defined iff both dates are present and is their
\* difference in days (zero and negative included); profit_per_day is
\* defined iff days_to_sell is defined and > 0 and actual_profit is defined,
\* and is None otherwise; bought day D at cost 20 and sold day D+10 for 50
\* gives 10 days, profit 30 and 3.00 per day.
C4_DaysAndProfitPerDay ==
    ItemReported =>
        LET b == resp.body
        IN  /\ b.days_to_sell # None <=>
                   (b.date_bought # None /\ b.date_sold # None)
            /\ b.days_to_sell # None =>
                   Val(b.days_to_sell) = Val(b.date_sold).d - Val(b.date_bought).d
            /\ b.profit_per_day # None <=>
                   /\ b.days_to_sell # None
                   /\ b.actual_profit # None
                   /\ Val(b.days_to_sell) > 0
            /\ ( /\ b.date_bought # None
                 /\ b.date_sold # None
                 /\ Val(b.date_sold).d = Val(b.date_bought).d + 10
                 /\ b.cost = Some(USD(20))
                 /\ b.sold_for = Some(USD(50)) ) =>
                   /\ b.days_to_sell = Some(10)
                   /\ b.actual_profit = Some(USD(30))
                   /\ b.profit_per_day = Some(300)

C4_Witness ==
    /\ ItemReported
    /\ resp.body.date_bought = Some(isoformat(1))
    /\ resp.body.date_sold = Some(isoformat(11))
    /\ resp.body.cost = Some(USD(20))
    /\ resp.body.sold_for = Some(USD(50))
    /\ resp.body.profit_per_day = Some(300)

(***************************************************************************)
(* Claims about the ledger under requests.                                 *)
(***************************************************************************)
\* the derived values of a reported dict are the formulas on the row i
DerivedFrom(b, i) ==
    /\ b.actual_profit = actual_profit(i)
    /\ b.predicted_profit = predicted_profit(i)
    /\ b.actual_margin = actual_margin(i)
    /\ b.days_to_sell = days_to_sell(i)
    /\ b.profit_per_day = profit_per_day(i)

ReportsOneItem ==
    \/ resp.op = "create_item" /\ resp.status = 201
    \/ resp.op \in {"get_item", "update_item"} /\ resp.status = 200

\* what every item response and the stored rows satisfy
DerivedMatchStored ==
    /\ \A k \in 1..Len(items) : DOMAIN items[k] = Columns
    /\ ReportsOneItem =>
           /\ HasId(resp.body.id)
           /\ DerivedFrom(resp.body, items[IndexOf(resp.body.id)])
    /\ (resp.op = "get_items" /\ resp.status = 200) =>
           \A k \in 1..Len(resp.body) :
               /\ HasId(resp.body[k].id)
               /\ DerivedFrom(resp.body[k], items[IndexOf(resp.body[k].id)])

\* two reads of one item with no write between them report the same dict
SameReadTwice ==
    ( /\ req.op = "get_item" /\ resp.status = 200
      /\ req' = req /\ resp'.status = 200
      /\ items' = items ) => resp'.body = resp.body

\* C5: after any sequence of requests the derived values reported for a
\* stored item are the derivation formulas applied to its stored columns;
\* rows store no derived value; reading an item twice with no write in
\* between reports identical values.
C5_NoDrift == []DerivedMatchStored /\ [][SameReadTwice]_vars

C5_Witness ==
    /\ req.op = "update_item"
    /\ resp.status = 200
    /\ resp.body.status = Some("Sold")
    /\ resp.body.actual_profit = None
    /\ \E k \in 1..Len(items) :
           items[k].id = resp.body.id /\ items[k].sold_for = None

\* C6: every stored item has a status in {Listed, Sold} and a cost that is
\* absent or >= 0, whatever create_item and update_item were sent.
C6_DataModelInvariant ==
    \A k \in 1..Len(items) :
        /\ items[k].status \in {Some("Listed"), Some("Sold")}
        /\ items[k].cost # None => Val(items[k].cost) >= 0

\* the step is a served delete_item request for id
DeleteOf(id) ==
    req'.op = "delete_item" /\ req'.item_id = Some(id) /\ resp'.status = 200

\* C7 as claimed: an item leaves the store only by delete_item on its id;
\* no other request and no import run removes it.
C7_OnlyDeleteRemoves ==
    [][\A id \in Ids : id \in Ids' \/ DeleteOf(id)]_vars

\* C7 as amended: an item leaves the store only by delete_item on its id or
\* by an import run, which empties the table before inserting the sheet's
\* rows; no create_item, update_item, get_stats, get_analytics or export
\* removes an item.
C7_OnlyDeleteOrImportRemoves ==
    [][ /\ \A id \in Ids : id \in Ids' \/ DeleteOf(id) \/ req'.op = "import_data"
        /\ req'.op = "import_data" =>
               \A k \in 1..Len(items') : items'[k].id = k ]_vars

C7_Witness ==
    /\ req.op = "update_item"
    /\ resp.status = 200
    /\ Len(items) = 2
    /\ Ids = {2, 3}

\* C8: get_stats and get_analytics never raise, whatever rows the store
\* holds, sold rows with no sold_for included.
C8_NeverRaises ==
    req.op \in {"get_stats", "get_analytics"} => resp.status = 200

\* C9: on an empty store get_stats answers with every count and total 0 and
\* every list empty; avg_margin is 0 when no sold item has a margin and
\* avg_days_to_sell is 0 when no sold item took a positive number of days.
C9_EmptyStats ==
    req.op = "get_stats" =>
        LET b == resp.body
            sold == SelectSeq(items, IsSold)
        IN  /\ resp.status = 200
            /\ items = <<>> =>
                   /\ b.total_items = 0 /\ b.sold_count = 0 /\ b.listed_count = 0
                   /\ b.total_spent = 0 /\ b.total_revenue = 0 /\ b.total_profit = 0
                   /\ b.current_invested = 0 /\ b.predicted_profit = 0
                   /\ b.avg_margin = 0 /\ b.avg_days_to_sell = 0
                   /\ b.weekly_profit = 0 /\ b.money_multiplier = 0
                   /\ b.monthly_profit = <<>> /\ b.top_items = <<>>
                   /\ b.top_by_efficiency = <<>>
            /\ (\A k \in 1..Len(sold) : actual_margin(sold[k]) = None) =>
                   b.avg_margin = 0
            /\ (\A k \in 1..Len(sold) :
                    days_to_sell(sold[k]) = None \/ Val(days_to_sell(sold[k])) <= 0) =>
                   b.avg_days_to_sell = 0

C9_Witness ==
    /\ req.op = "get_stats"
    /\ items = <<>>
    /\ resp.body.total_items = 0
    /\ resp.body.top_items = <<>>

(***************************************************************************)
(* Claims about the ranked lists.                                          *)
(***************************************************************************)
KeyEq(a, b) == a.n * b.d = b.n * a.d

Count(s, Test(_)) == Len(SelectSeq(s, Test))

\* the keys of the rows of s that pass Test, in store order
KeysOf(s, Test(_), KeyOf(_)) ==
    LET q == SelectSeq(s, Test) IN [k \in 1..Len(q) |-> KeyOf(q[k])]

NonIncreasing(keys) == \A k \in 1..(Len(keys) - 1) : ~KeyLess(keys[k], keys[k + 1])
NonDecreasing(keys) == \A k \in 1..(Len(keys) - 1) : ~KeyLess(keys[k + 1], keys[k])

\* every listed key is the key of as many qualifying rows at least
DrawnFrom(keys, qualifying) ==
    \A k \in 1..Len(keys) :
        Count(keys, LAMBDA x : KeyEq(x, keys[k]))
            <= Count(qualifying, LAMBDA x : KeyEq(x, keys[k]))

\* keys are the n largest of qualifying, largest first
LargestOf(keys, qualifying, n) ==
    /\ Len(keys) = Min(n, Len(qualifying))
    /\ NonIncreasing(keys)
    /\ DrawnFrom(keys, qualifying)
    /\ keys # <<>> =>
           Count(qualifying, LAMBDA x : KeyLess(keys[Len(keys)], x))
               <= Count(keys, LAMBDA x : KeyLess(keys[Len(keys)], x))

\* keys are the n smallest of qualifying, largest first
SmallestOfDescending(keys, qualifying, n) ==
    /\ Len(keys) = Min(n, Len(qualifying))
    /\ NonIncreasing(keys)
    /\ DrawnFrom(keys, qualifying)
    /\ keys # <<>> =>
           Count(qualifying, LAMBDA x : KeyLess(x, keys[1]))
               <= Count(keys, LAMBDA x : KeyLess(x, keys[1]))

\* keys are the n smallest of qualifying, smallest first
SmallestOf(keys, qualifying, n) ==
    /\ Len(keys) = Min(n, Len(qualifying))
    /\ NonDecreasing(keys)
    /\ DrawnFrom(keys, qualifying)
    /\ keys # <<>> =>
           Count(qualifying, LAMBDA x : KeyLess(x, keys[Len(keys)]))
               <= Count(keys, LAMBDA x : KeyLess(x, keys[Len(keys)]))

ProfitKeys(list) == [k \in 1..Len(list) |-> Key(Val(list[k].profit))]

StatsListsRanked ==
    LET b == resp.body
        sold == SelectSeq(items, IsSold)
        profits == KeysOf(sold, LAMBDA i : actual_profit(i) # None,
                          LAMBDA i : Key(Val(actual_profit(i))))
        rates == KeysOf(sold, LAMBDA i : profit_per_day(i) # None
                                         /\ Val(profit_per_day(i)) > 0,
                        LAMBDA i : Key(Val(profit_per_day(i))))
    IN  /\ Len(b.top_items) <= 10
        /\ LargestOf(ProfitKeys(b.top_items), profits, 10)
        /\ Len(b.top_by_efficiency) <= 10
        /\ \A k \in 1..Len(b.top_by_efficiency) :
               Val(b.top_by_efficiency[k].profit_per_day) > 0
        /\ LargestOf([k \in 1..Len(b.top_by_efficiency) |->
                         Key(Val(b.top_by_efficiency[k].profit_per_day))],
                     rates, 10)

AnalyticsListsRanked ==
    LET b == resp.body
        sold == SelectSeq(items, IsSold)
        profits == KeysOf(sold, LAMBDA i : actual_profit(i) # None,
                          LAMBDA i : Key(Val(actual_profit(i))))
        rois == KeysOf(sold, LAMBDA i : /\ i.cost # None /\ Val(i.cost) > 0
                                        /\ actual_profit(i) # None,
                       LAMBDA i : Ratio(Val(actual_profit(i)), Val(i.cost)))
        speeds == KeysOf(sold, LAMBDA i : days_to_sell(i) # None
                                          /\ Val(days_to_sell(i)) >= 0,
                         LAMBDA i : Key(Val(days_to_sell(i))))
    IN  /\ Len(b.best_flips) <= 5
        /\ LargestOf(ProfitKeys(b.best_flips), profits, 5)
        /\ Len(b.worst_flips) <= 3
        /\ SmallestOfDescending(ProfitKeys(b.worst_flips), profits, 3)
        /\ Len(b.roi_champions) <= 7
        /\ \A k \in 1..Len(b.roi_champions) : Val(b.roi_champions[k].cost) > 0
        /\ LargestOf([k \in 1..Len(b.roi_champions) |->
                         Ratio(Val(b.roi_champions[k].sold) - Val(b.roi_champions[k].cost),
                               Val(b.roi_champions[k].cost))],
                     rois, 7)
        /\ Len(b.speed_demons) <= 7
        /\ \A k \in 1..Len(b.speed_demons) : Val(b.speed_demons[k].days) >= 0
        /\ SmallestOf([k \in 1..Len(b.speed_demons) |->
                          Key(Val(b.speed_demons[k].days))],
                      speeds, 7)

\* C10: top_items and top_by_efficiency hold at most 10 entries, best_flips
\* 5, worst_flips 3, roi_champions and speed_demons 7; top_items, best_flips
\* and worst_flips are in non-increasing profit order, top_by_efficiency in
\* non-increasing profit_per_day order with positive rates only,
\* roi_champions in non-increasing profit/cost order with cost > 0 only,
\* speed_demons in non-decreasing days order with days >= 0 only; each list
\* holds the extreme entries of its qualifying rows.
C10_TopListsRanked ==
    /\ (req.op = "get_stats" /\ resp.status = 200) => StatsListsRanked
    /\ (req.op = "get_analytics" /\ resp.status = 200) => AnalyticsListsRanked

C10_Witness ==
    /\ req.op = "get_stats"
    /\ resp.body.sold_count = 11
    /\ Len(resp.body.top_items) = 10
    /\ Len(resp.body.top_by_efficiency) = 10
    /\ resp.body.top_items[1].profit = Some(USD(30))
    /\ resp.body.top_items[10].profit = Some(USD(10))
    /\ items[1].sold_for = Some(USD(15))

(***************************************************************************)
(* Claims about the aggregates of /api/stats and /api/analytics.           *)
(***************************************************************************)
StatsReported == req.op = "get_stats" /\ resp.status = 200

AnalyticsReported == req.op = "get_analytics" /\ resp.status = 200

\* the rows of the store a month's total is taken over: sold, with a sale
\* date in month m and both amounts of the profit present
CountedIn(m) ==
    SelectSeq(items, LAMBDA i : /\ i.status = Some("Sold")
                                /\ i.date_sold # None
                                /\ i.sold_for # None /\ i.cost # None
                                /\ MonthKey(Val(i.date_sold)) = m)

\* C11: monthly_profit of get_stats has one entry per calendar month in
\* which a sold item with a sale date and a defined profit was sold, its
\* value the sum of the profits of exactly those items (10 and -5 in one
\* month give one entry of 5); no other month appears; the entries are in
\* strictly ascending month order.
C11_MonthlyProfit ==
    StatsReported =>
        LET mp == resp.body.monthly_profit
            dated == SelectSeq(items, LAMBDA i : i.date_sold # None)
            months == {MonthKey(Val(dated[k].date_sold)) : k \in 1..Len(dated)}
            Total(m) == SumSeq([k \in 1..Len(CountedIn(m)) |->
                            Val(CountedIn(m)[k].sold_for) - Val(CountedIn(m)[k].cost)])
        IN  /\ \A k \in 1..(Len(mp) - 1) : mp[k].month < mp[k + 1].month
            /\ \A k \in 1..Len(mp) :
                   /\ mp[k].month \in months
                   /\ CountedIn(mp[k].month) # <<>>
                   /\ mp[k].profit = Total(mp[k].month)
            /\ \A m \in months :
                   CountedIn(m) # <<>> => \E k \in 1..Len(mp) : mp[k].month = m

C11_Witness ==
    /\ StatsReported
    /\ Len(items) = 3
    /\ \E j, k \in 1..3 :
           /\ actual_profit(items[j]) = Some(USD(10))
           /\ actual_profit(items[k]) = Some(USD(-5))
           /\ items[j].date_sold = Some(5) /\ items[k].date_sold = Some(1)
    /\ \E k \in 1..3 : items[k].description = "Mirror" /\ items[k].date_sold = Some(40)
    /\ resp.body.monthly_profit = <<[month |-> 202401, profit |-> USD(5)]>>

(***************************************************************************)
(* Claims about ties in the ranked lists, on stores whose descriptions     *)
(* tell the rows apart.                                                    *)
(***************************************************************************)
DistinctDescriptions ==
    \A j, k \in 1..Len(items) :
        items[j].description = items[k].description => j = k

\* the store position of the row described as desc
PosOf(desc) == CHOOSE k \in 1..Len(items) : items[k].description = desc

\* listed rows of equal key are in store order
TiesInStoreOrder(descs, KeyOf(_)) ==
    \A k \in 1..(Len(descs) - 1) :
        KeyEq(KeyOf(items[PosOf(descs[k])]), KeyOf(items[PosOf(descs[k + 1])]))
            => PosOf(descs[k]) < PosOf(descs[k + 1])

\* the qualifying rows left out whose key equals a listed row's key
LeftOutTies(descs, Qualifies(_), KeyOf(_), k) ==
    {q \in 1..Len(items) :
        /\ Qualifies(items[q])
        /\ \A j \in 1..Len(descs) : PosOf(descs[j]) # q
        /\ KeyEq(KeyOf(items[q]), KeyOf(items[PosOf(descs[k])]))}

EarlierKept(descs, Qualifies(_), KeyOf(_)) ==
    \A k \in 1..Len(descs) :
        \A q \in LeftOutTies(descs, Qualifies, KeyOf, k) : PosOf(descs[k]) < q

LaterKept(descs, Qualifies(_), KeyOf(_)) ==
    \A k \in 1..Len(descs) :
        \A q \in LeftOutTies(descs, Qualifies, KeyOf, k) : q < PosOf(descs[k])

DescsOf(list) == [k \in 1..Len(list) |-> list[k].desc]

HasProfit(i) == IsSold(i) /\ actual_profit(i) # None
ProfitKey(i) == Key(Val(actual_profit(i)))
HasRate(i) == IsSold(i) /\ profit_per_day(i) # None /\ Val(profit_per_day(i)) > 0
RateKey(i) == Key(Val(profit_per_day(i)))
HasRoi(i) == IsSold(i) /\ i.cost # None /\ Val(i.cost) > 0 /\ actual_profit(i) # None
RoiKey(i) == Ratio(Val(actual_profit(i)), Val(i.cost))
HasSpeed(i) == IsSold(i) /\ days_to_sell(i) # None /\ Val(days_to_sell(i)) >= 0
SpeedKey(i) == Key(Val(days_to_sell(i)))

\* what holds of the lists of get_stats and of the lists of get_analytics
\* other than worst_flips
TiesKeepEarlier ==
    /\ (StatsReported /\ DistinctDescriptions) =>
           LET top == [k \in 1..Len(resp.body.top_items) |->
                          resp.body.top_items[k].description]
               eff == [k \in 1..Len(resp.body.top_by_efficiency) |->
                          resp.body.top_by_efficiency[k].description]
           IN  /\ TiesInStoreOrder(top, ProfitKey)
               /\ EarlierKept(top, HasProfit, ProfitKey)
               /\ TiesInStoreOrder(eff, RateKey)
               /\ EarlierKept(eff, HasRate, RateKey)
    /\ (AnalyticsReported /\ DistinctDescriptions) =>
           LET b == resp.body
           IN  /\ TiesInStoreOrder(DescsOf(b.best_flips), ProfitKey)
               /\ EarlierKept(DescsOf(b.best_flips), HasProfit, ProfitKey)
               /\ TiesInStoreOrder(DescsOf(b.worst_flips), ProfitKey)
               /\ TiesInStoreOrder(DescsOf(b.roi_champions), RoiKey)
               /\ EarlierKept(DescsOf(b.roi_champions), HasRoi, RoiKey)
               /\ TiesInStoreOrder(DescsOf(b.speed_demons), SpeedKey)
               /\ EarlierKept(DescsOf(b.speed_demons), HasSpeed, SpeedKey)

\* C12 as claimed: in every top-N list items of equal key appear in store
\* order, in the descending and in the ascending sorts, and when a tie
\* straddles the cut-off the earlier item in store order is the one kept,
\* in worst_flips as in the other lists.
C12_TiesKeepEarlier ==
    /\ TiesKeepEarlier
    /\ (AnalyticsReported /\ DistinctDescriptions) =>
           EarlierKept(DescsOf(resp.body.worst_flips), HasProfit, ProfitKey)

\* C12 as amended: items of equal key appear in store order in every list;
\* at a tie across the cut-off top_items, top_by_efficiency, best_flips,
\* roi_champions and speed_demons keep the earlier items in store order,
\* and worst_flips, the last three of the descending list, keeps the later.
C12_TiesInStoreOrder ==
    /\ TiesKeepEarlier
    /\ (AnalyticsReported /\ DistinctDescriptions) =>
           LaterKept(DescsOf(resp.body.worst_flips), HasProfit, ProfitKey)

C12_Witness ==
    /\ AnalyticsReported
    /\ Len(items) = 8
    /\ \A k \in 1..8 : actual_profit(items[k]) = Some(USD(30))
    /\ DescsOf(resp.body.best_flips) = <<"lot 1", "lot 2", "lot 3", "lot 4", "lot 5">>
    /\ DescsOf(resp.body.worst_flips) = <<"lot 6", "lot 7", "lot 8">>
    /\ DescsOf(resp.body.roi_champions) =
           <<"lot 1", "lot 2", "lot 3", "lot 4", "lot 5", "lot 6", "lot 7">>

\* C17: best_flips is the first 5 and worst_flips the last 3 of one list of
\* the k sold items with a profit; for k < 8 the two lists share exactly
\* max(0, min(k, 5) + min(k, 3) - k) items, each reported in both, and for
\* k >= 8 they share none.
C17_BestWorstOverlap ==
    (AnalyticsReported /\ DistinctDescriptions) =>
        LET best == DescsOf(resp.body.best_flips)
            worst == DescsOf(resp.body.worst_flips)
            k == Count(items, HasProfit)
            shared == {best[j] : j \in 1..Len(best)} \cap {worst[j] : j \in 1..Len(worst)}
        IN  /\ Len(best) = Min(k, 5)
            /\ Len(worst) = Min(k, 3)
            /\ Cardinality({best[j] : j \in 1..Len(best)}) = Len(best)
            /\ Cardinality({worst[j] : j \in 1..Len(worst)}) = Len(worst)
            /\ k < 8 => Cardinality(shared) = Max(0, Min(k, 5) + Min(k, 3) - k)
            /\ k >= 8 => shared = {}

C17_Witness ==
    /\ AnalyticsReported
    /\ Count(items, HasProfit) = 6
    /\ DescsOf(resp.body.best_flips) = <<"lot 2", "lot 4", "lot 6", "lot 1", "lot 3">>
    /\ DescsOf(resp.body.worst_flips) = <<"lot 1", "lot 3", "lot 5">>

(***************************************************************************)
(* Claims about the business span.                                         *)
(***************************************************************************)
Largest(S) == CHOOSE x \in S : \A y \in S : y <= x
Smallest(S) == CHOOSE x \in S : \A y \in S : x <= y

\* the dates of the sold rows that pass Test
BoughtDates(Test(_)) ==
    {Val(items[k].date_bought) :
        k \in {j \in 1..Len(items) : IsSold(items[j]) /\ items[j].date_bought # None
                                      /\ Test(items[j])}}

SoldDates(Test(_)) ==
    {Val(items[k].date_sold) :
        k \in {j \in 1..Len(items) : IsSold(items[j]) /\ items[j].date_sold # None
                                      /\ Test(items[j])}}

\* latest sale minus earliest purchase over the sold rows that pass Test,
\* 1 when there is no sale date or no purchase date among them
SpanOver(Test(_)) ==
    IF BoughtDates(Test) # {} /\ SoldDates(Test) # {}
    THEN Largest(SoldDates(Test)) - Smallest(BoughtDates(Test))
    ELSE 1

BothDates(i) == i.date_bought # None /\ i.date_sold # None
AnyDates(i) == TRUE

\* round(total / max(span / 7, 1)) of a total in cents, in dollars
WeeklyOver(total, span) ==
    IF span <= 7 THEN RoundHalfEven(total, 100)
    ELSE RoundHalfEven(7 * total, 100 * span)

\* C13 as claimed: the span behind weekly_profit of get_stats and the
\* scorecard of get_analytics is latest date_sold minus earliest
\* date_bought over the sold items that have both dates, and 1 when no sold
\* item has both; a sold item with one date only does not influence it.
C13_SpanOverBothDated ==
    /\ AnalyticsReported =>
           resp.body.scorecard.days_in_business = SpanOver(BothDates)
    /\ StatsReported =>
           resp.body.weekly_profit =
               WeeklyOver(resp.body.total_profit, SpanOver(BothDates))

\* C13 as amended: the span is the latest date_sold of the sold items that
\* have a date_sold minus the earliest date_bought of the sold items that
\* have a date_bought, whether or not the same item has the other date,
\* and 1 when no sold item has a date_sold or none has a date_bought.
C13_SpanOverEachDate ==
    /\ AnalyticsReported =>
           resp.body.scorecard.days_in_business = SpanOver(AnyDates)
    /\ StatsReported =>
           resp.body.weekly_profit =
               WeeklyOver(resp.body.total_profit, SpanOver(AnyDates))

C13_Witness ==
    /\ AnalyticsReported
    /\ Len(items) = 2
    /\ IsSold(items[1]) /\ items[1].date_bought = Some(3) /\ items[1].date_sold = None
    /\ IsSold(items[2]) /\ items[2].date_bought = Some(25)
    /\ items[2].date_sold = Some(35)
    /\ resp.body.scorecard.days_in_business = 32

\* C19: days_in_business of the scorecard is at least 1 for every store,
\* also when the latest sale date equals or precedes the earliest purchase.
C19_SpanAtLeastOne ==
    AnalyticsReported => resp.body.scorecard.days_in_business >= 1

(***************************************************************************)
(* Claims about the tables of /api/analytics.                              *)
(***************************************************************************)
\* C16: the negotiation analysis covers exactly the sold items with a
\* listing_price > 0 and a sold_for that is present, a sold_for of 0
\* included; total_items is their number and above_asking + at_asking +
\* below_asking = total_items.
C16_NegotiationCoversPricedSales ==
    AnalyticsReported =>
        LET n == resp.body.negotiation
        IN  /\ n.total_items =
                   Count(items, LAMBDA i : /\ IsSold(i)
                                           /\ i.listing_price # None
                                           /\ Val(i.listing_price) > 0
                                           /\ i.sold_for # None)
            /\ n.above_asking + n.at_asking + n.below_asking = n.total_items

\* C20: every sold item with a cost from 0 to 99999 dollars, whole or
\* fractional, is counted in exactly one bracket of the cost-bracket table,
\* so that the counts of the brackets add up to the number of such items.
C20_CostBracketsPartition ==
    AnalyticsReported =>
        LET cb == resp.body.cost_brackets
        IN  SumSeq([k \in 1..Len(cb) |-> cb[k].count]) =
                Count(items, LAMBDA i : /\ IsSold(i)
                                        /\ i.cost # None
                                        /\ 0 <= Val(i.cost)
                                        /\ Val(i.cost) <= USD(99999))

(***************************************************************************)
(* Claims about the guards of the divisions.                               *)
(***************************************************************************)
\* sum(i.cost or 0) over the sold rows of the store
SoldCost ==
    LET sold == SelectSeq(items, IsSold)
    IN  SumSeq([k \in 1..Len(sold) |-> IF sold[k].cost = None THEN 0
                                        ELSE Val(sold[k].cost)])

\* a reported item has no margin without a positive sale price and no
\* profit per day without a positive number of days
ItemGuards ==
    ItemReported =>
        LET b == resp.body
        IN  /\ (b.sold_for = None \/ Val(b.sold_for) <= 0) => b.actual_margin = None
            /\ (b.days_to_sell = None \/ Val(b.days_to_sell) <= 0) =>
                   b.profit_per_day = None

\* no table of get_analytics has an entry for an empty bucket, and no item
\* without a positive cost has a ROI
BucketGuards ==
    AnalyticsReported =>
        LET b == resp.body
        IN  /\ \A k \in 1..Len(b.categories) : b.categories[k].count >= 1
            /\ \A k \in 1..Len(b.cost_brackets) : b.cost_brackets[k].count >= 1
            /\ \A k \in 1..Len(b.speed_analysis) : b.speed_analysis[k].count >= 1
            /\ \A k \in 1..Len(b.price_brackets) : b.price_brackets[k].count >= 1
            /\ \A k \in 1..Len(b.day_of_week) : b.day_of_week[k].count >= 1
            /\ \A k \in 1..Len(b.roi_champions) : Val(b.roi_champions[k].cost) > 0

\* C14 as claimed: every division of the derivation layer, get_stats and
\* get_analytics is executed only when its denominator is defined and
\* strictly positive, and when the guard fails the result is absent from
\* the output, not zero and not an error.
C14_GuardFailureIsAbsent ==
    /\ ItemGuards
    /\ BucketGuards
    /\ StatsReported =>
           (resp.body.total_spent <= 0 => "money_multiplier" \notin DOMAIN resp.body)
    /\ AnalyticsReported =>
           /\ SoldCost <= 0 =>
                  /\ "money_multiplier" \notin DOMAIN resp.body.scorecard
                  /\ "profit_per_dollar" \notin DOMAIN resp.body.scorecard
           /\ resp.body.negotiation.total_items = 0 =>
                  "avg_discount_pct" \notin DOMAIN resp.body.negotiation

\* C14 as amended: margin, profit_per_day and the per-item ROI are computed
\* only on a strictly positive denominator and are absent otherwise, and an
\* empty bucket has no entry; money_multiplier of get_stats is computed
\* only when total_spent > 0, money_multiplier and profit_per_dollar of the
\* scorecard whenever the total cost of the sold items is not 0 (negative
\* included), avg_discount_pct whenever an item is negotiated, and when
\* their guard fails these ratios are reported as 0.
C14_GuardFailureIsZero ==
    /\ ItemGuards
    /\ BucketGuards
    /\ StatsReported =>
           LET b == resp.body
           IN  /\ b.total_spent <= 0 => b.money_multiplier = 0
               /\ b.total_spent > 0 =>
                      b.money_multiplier =
                          RoundHalfEven(10 * b.total_revenue, b.total_spent)
    /\ AnalyticsReported =>
           LET c == resp.body.scorecard
               n == resp.body.negotiation
               sold == SelectSeq(items, IsSold)
               revenue == SumSeq([k \in 1..Len(sold) |-> OrZero(sold[k].sold_for)])
               profit == SumSeq([k \in 1..Len(sold) |-> OrZero(actual_profit(sold[k]))])
           IN  /\ SoldCost = 0 => c.money_multiplier = 0 /\ c.profit_per_dollar = 0
               /\ SoldCost > 0 =>
                      /\ c.money_multiplier = RoundHalfEven(10 * revenue, SoldCost)
                      /\ c.profit_per_dollar = RoundHalfEven(100 * profit, SoldCost)
               /\ SoldCost < 0 =>
                      /\ c.money_multiplier = RoundHalfEven(-10 * revenue, -SoldCost)
                      /\ c.profit_per_dollar = RoundHalfEven(-100 * profit, -SoldCost)
               /\ n.total_items = 0 => n.avg_discount_pct = 0

C14_Witness ==
    /\ AnalyticsReported
    /\ IsSold(items[1])
    /\ items[1].cost = Some(0)
    /\ items[1].sold_for = Some(USD(50))
    /\ resp.body.scorecard.money_multiplier = 0
    /\ resp.body.scorecard.profit_per_dollar = 0
    /\ resp.body.negotiation.avg_discount_pct = 0

(***************************************************************************)
(* Claims about the category table and the inventory aging list.           *)
(***************************************************************************)
\* the rules with a keyword in the lowercased description of i
RulesHit(i) ==
    LET desc == Lower(Chars(i.description))
    IN  {r \in 1..Len(CategoryRules) :
            \E kw \in CategoryRules[r].keywords : Occurs(Chars(kw), desc)}

\* the category of the first rule hit, 'Other' if no rule is hit
FirstRuleHit(i) ==
    LET hit == RulesHit(i)
    IN  IF hit = {} THEN "Other" ELSE CategoryRules[Smallest(hit)].cat

CategoryNames ==
    {CategoryRules[r].cat : r \in 1..Len(CategoryRules)} \cup {"Other"}

\* C15: every sold item is counted in exactly one category, that of the
\* first rule in the order Tables/Desks, Chairs/Seating, Dressers/Storage,
\* Decor/Wall Art, Rugs, Benches/Ottomans, Hutch/Shelving, Lighting with a
\* keyword in its lowercased description, else Other; the counts add up to
\* the number of sold items; no empty category is emitted; the categories
\* are in non-increasing total-profit order.
C15_CategoryBreakdown ==
    AnalyticsReported =>
        LET cats == resp.body.categories
            sold == SelectSeq(items, LAMBDA i : i.status = Some("Sold"))
            expected == [k \in 1..Len(sold) |-> FirstRuleHit(sold[k])]
        IN  /\ \A cat \in CategoryNames :
                   LET n == Cardinality({k \in 1..Len(sold) : expected[k] = cat})
                       found == SelectSeq(cats, LAMBDA c : c.category = cat)
                   IN  IF n = 0 THEN found = <<>>
                       ELSE Len(found) = 1 /\ found[1].count = n
            /\ \A k \in 1..Len(cats) : cats[k].category \in CategoryNames
            /\ SumSeq([k \in 1..Len(cats) |-> cats[k].count]) = Len(sold)
            /\ \A k \in 1..(Len(cats) - 1) :
                   cats[k].total_profit >= cats[k + 1].total_profit

C15_Witness ==
    /\ AnalyticsReported
    /\ \E k \in 1..Len(items) : IsSold(items[k]) /\ items[k].description = "Desk Lamp"
    /\ \E k \in 1..Len(items) : IsSold(items[k]) /\ items[k].description = "rugged stool"
    /\ \E k \in 1..Len(items) : IsListed(items[k]) /\ items[k].description = "rug"
    /\ Len(resp.body.categories) = 2
    /\ resp.body.categories[1].category = "Tables/Desks"
    /\ resp.body.categories[1].total_profit = 10
    /\ resp.body.categories[2].category = "Chairs/Seating"
    /\ resp.body.categories[2].total_profit = -5

\* C18: the inventory aging list has every Listed item exactly once and no
\* other item; an entry's age is today minus date_bought in days, or 0
\* with no date_bought; its status is Fresh up to 30 days, Aging from 31
\* to 60, Stale above 60; the list is in non-increasing age order.
C18_InventoryAging ==
    AnalyticsReported =>
        LET aging == resp.body.inventory_aging
        IN  /\ \A k \in 1..Len(items) :
                   Count(aging, LAMBDA a : a.id = items[k].id) =
                       IF items[k].status = Some("Listed") THEN 1 ELSE 0
            /\ \A k \in 1..Len(aging) :
                   /\ HasId(aging[k].id)
                   /\ LET i == items[IndexOf(aging[k].id)]
                          age == aging[k].age_days
                      IN  /\ i.date_bought = None => age = 0
                          /\ i.date_bought # None => age = today - Val(i.date_bought)
                          /\ age <= 30 => aging[k].status = "Fresh"
                          /\ (31 <= age /\ age <= 60) => aging[k].status = "Aging"
                          /\ age > 60 => aging[k].status = "Stale"
            /\ \A k \in 1..(Len(aging) - 1) :
                   aging[k].age_days >= aging[k + 1].age_days

C18_Witness ==
    /\ AnalyticsReported
    /\ today = 61
    /\ Len(items) = 3
    /\ items[1].date_bought = None /\ items[2].date_bought = Some(1)
    /\ items[3].date_bought = Some(0)
    /\ Len(resp.body.inventory_aging) = 3
    /\ [k \in 1..3 |-> resp.body.inventory_aging[k].id] = <<3, 2, 1>>
    /\ [k \in 1..3 |-> resp.body.inventory_aging[k].age_days] = <<61, 60, 0>>
    /\ [k \in 1..3 |-> resp.body.inventory_aging[k].status] =
           <<"Stale", "Aging", "Fresh">>


(***************************************************************************)
(* C21: update_item changes only the addressed item.  After a served       *)
(* update the table has the rows it had, in the same places and under the  *)
(* same ids, and every row but the addressed one is as it was; in the      *)
(* addressed row a status the body omits keeps its value, while an omitted *)
(* date_bought, date_sold, listing_price, sold_for or notes becomes null   *)
(* and an omitted cost becomes 0.  An update of an id that no row has      *)
(* leaves the table as it was.                                             *)
(***************************************************************************)
UpdateServed == req'.op = "update_item" /\ resp'.status = 200

OmittedFieldsReset(data, old, new) ==
    /\ data.status = Absent => new.status = old.status
    /\ data.date_bought = Absent => new.date_bought = None
    /\ data.date_sold = Absent => new.date_sold = None
    /\ data.listing_price = Absent => new.listing_price = None
    /\ data.sold_for = Absent => new.sold_for = None
    /\ data.notes = Absent => new.notes = None
    /\ data.cost = Absent => new.cost = Some(0)

UpdateFrame ==
    /\ UpdateServed =>
          /\ Len(items') = Len(items)
          /\ \A k \in 1..Len(items) :
                /\ items'[k].id = items[k].id
                /\ items[k].id # Val(req'.item_id) => items'[k] = items[k]
                /\ items[k].id = Val(req'.item_id) =>
                      OmittedFieldsReset(req'.json, items[k], items'[k])
    /\ ( /\ req'.op = "update_item"
         /\ \A k \in 1..Len(items) : items[k].id # Val(req'.item_id) )
       => items' = items

C21_UpdateChangesOnlyAddressed == [][UpdateFrame]_vars

\* a sold item with notes was updated with a body of a description alone, next
\* to another item: it is still Sold, costs 0 and has lost the rest
C21_Witness ==
    /\ req.op = "update_item"
    /\ resp.status = 200
    /\ req.json = [EmptyBody EXCEPT !.description = JStr("oak table")]
    /\ Len(items) = 2
    /\ \E k \in 1..2 :
          /\ items[k].id = Val(req.item_id)
          /\ items[k].status = Some("Sold")
          /\ items[k].cost = Some(0)
          /\ items[k].date_bought = None
          /\ items[k].date_sold = None
          /\ items[k].listing_price = None
          /\ items[k].sold_for = None
          /\ items[k].notes = None
          /\ items[3 - k].notes = Some("solid oak")
          /\ items[3 - k].status = Some("Sold")

=============================================================================
